---- MODULE Spec2Model ----
(***************************************************************************)
(* PicoKV (picokv.js): an append-only log of segment files, one in-memory  *)
(* key -> offset index per segment, a list of indexes (newest first), and  *)
(* a periodic compaction job.  Files are modelled byte by byte; get, set   *)
(* and the compaction callback are split at their awaits, where the file   *)
(* operation they wait for is performed.                                   *)
(***************************************************************************)
EXTENDS Integers, Sequences, FiniteSets, TLC

\* ------------------------------------------------------------------ bounds
MaxSets == 3
MaxGets == 1
MaxCycles == 1
MaxRestarts == 1
MaxTime == 1
\* options.segmentsSize of the constructor
segmentsSize == 24

\* ------------------------------------------------------- program constants
HEADER_LENGTH == 4
KEY_LENGTH == 20

\* ------------------------------------------------------------------ inputs
\* keys are strings of ASCII characters, given by their bytes
KeyA == <<97>>
KeyB == <<98>>
\* 20 and 21 characters "k"
Key20 == [i \in 1..20 |-> 107]
Key21 == [i \in 1..21 |-> 107]
Keys == {KeyA, KeyB, Key20, Key21}
\* values are strings, given by their code points: "", "1", "e-acute"
Values == {<<>>, <<49>>, <<233>>}

\* what a get can produce besides a string
NotFound == <<-1>>
Failed == <<-2>>
Garbage == <<-3>>

Min(a, b) == IF a < b THEN a ELSE b

\* ------------------------------------------------------------------- codec
\* Buffer.from(string): the UTF-8 bytes of a string
RECURSIVE Utf8Encode(_)
Utf8Encode(s) ==
  IF s = <<>> THEN <<>>
  ELSE LET c == Head(s)
           b == IF c < 128 THEN <<c>>
                ELSE IF c < 2048 THEN <<192 + (c \div 64), 128 + (c % 64)>>
                ELSE <<224 + (c \div 4096), 128 + ((c \div 64) % 64), 128 + (c % 64)>>
       IN  b \o Utf8Encode(Tail(s))

\* buffer.toString(): the string of UTF-8 bytes; a byte that starts no
\* well-formed sequence becomes U+FFFD
RECURSIVE Utf8Decode(_)
Utf8Decode(b) ==
  IF b = <<>> THEN <<>>
  ELSE LET h == Head(b)
           Cont(i) == Len(b) >= i /\ b[i] >= 128 /\ b[i] < 192
       IN  IF h < 128 THEN <<h>> \o Utf8Decode(Tail(b))
           ELSE IF h >= 194 /\ h < 224 /\ Cont(2)
             THEN <<(h - 192) * 64 + (b[2] - 128)>> \o Utf8Decode(SubSeq(b, 3, Len(b)))
           ELSE IF h >= 224 /\ h < 240 /\ Cont(2) /\ Cont(3)
                   /\ (h - 224) * 4096 + (b[2] - 128) * 64 >= 2048
             THEN <<(h - 224) * 4096 + (b[2] - 128) * 64 + (b[3] - 128)>>
                    \o Utf8Decode(SubSeq(b, 4, Len(b)))
           ELSE <<65533>> \o Utf8Decode(Tail(b))

\* header.writeUInt32BE(n, 0)
writeUInt32BE(n) ==
  <<(n \div 16777216) % 256, (n \div 65536) % 256, (n \div 256) % 256, n % 256>>

\* headerBuffer.readUInt32BE(0); a number of 2^31 or more is given as
\* 2^31 - 1, which is also more than any file of the model holds
readUInt32BE(h) ==
  IF h[1] >= 128 THEN 2147483647
  ELSE h[1] * 16777216 + h[2] * 65536 + h[3] * 256 + h[4]

\* keyBuffer = Buffer.alloc(KEY_LENGTH); keyBuffer.write(key): the bytes of
\* the key that fit, the rest of the buffer zero
keyBuffer(key) ==
  [i \in 1..KEY_LENGTH |-> IF i <= Len(key) THEN key[i] ELSE 0]

\* pack(key, value)
pack(key, value) ==
  LET keyValueBuffer == keyBuffer(key) \o Utf8Encode(value)
  IN  writeUInt32BE(Len(keyValueBuffer)) \o keyValueBuffer

\* read(fd, buffer, 0, length, position) on a file of these bytes: the bytes
\* from position, fewer than length at the end of the file
ReadBytes(bytes, position, length) ==
  SubSeq(bytes, position + 1, position + Min(length, Len(bytes) - position))

\* unpack(fd, position) on a file of these bytes.  The buffers come from
\* Buffer.allocUnsafe: what a short read leaves in them is not defined.
unpack(bytes, position) ==
  LET headerBuffer == ReadBytes(bytes, position, HEADER_LENGTH)
  IN  IF Len(headerBuffer) < HEADER_LENGTH THEN Garbage
      ELSE LET length == readUInt32BE(headerBuffer)
               contentBuffer == ReadBytes(bytes, position + HEADER_LENGTH, length)
           IN  IF Len(contentBuffer) < length THEN Garbage
               ELSE Utf8Decode(SubSeq(contentBuffer, KEY_LENGTH + 1, length))

\* .toString().replace(/\0/g, '') of the key field
RECURSIVE StripNul(_)
StripNul(s) ==
  IF s = <<>> THEN <<>>
  ELSE IF Head(s) = 0 THEN StripNul(Tail(s))
  ELSE <<Head(s)>> \o StripNul(Tail(s))


\* --------------------------------------------------------------- JS Map
\* a Map is kept as the sequence of its <<key, value>> entries in insertion
\* order; Map.set of a key that is present keeps its place
MapHas(m, k) == \E i \in 1..Len(m) : m[i][1] = k
MapGet(m, k) == m[CHOOSE i \in 1..Len(m) : m[i][1] = k][2]
MapSet(m, k, v) ==
  IF MapHas(m, k)
    THEN [i \in 1..Len(m) |-> IF m[i][1] = k THEN <<k, v>> ELSE m[i]]
    ELSE Append(m, <<k, v>>)
MapKeys(m) == {m[i][1] : i \in 1..Len(m)}

\* ------------------------------------------------------------------- state
VARIABLES
  now,       \* the clock, as last read
  files,     \* the files that exist: inode -> [bytes, mtime]
  dir,       \* ./db/: file name -> inode
  fds,       \* the open file descriptors: fd -> inode
  heap,      \* the index objects: object -> [segment, fd, data, lastPosition]
  indexes,   \* this._indexes: a sequence of index objects, newest first
  sets,      \* the set calls suspended at their await
  gets,      \* the get calls suspended at an await
  cycles,    \* the compaction callbacks suspended at an await
  closing,   \* the forEach callbacks of obsoleteIndexes, suspended
  count,     \* how many calls, timer ticks and restarts there have been
  last,      \* what the last step returned or emitted
  written    \* history: the value of the last set that completed, by key

vars == <<now, files, dir, fds, heap, indexes, sets, gets, cycles, closing, count, last,
          written>>

None == [op |-> "none"]

\* `${this._dbPath}picokv-${t}.pkv` and .pkvc
Name(t, ext) == [t |-> t, ext |-> ext]

\* the clock at a reading: it has not gone back since the last one
Times == {t \in {now, now + 1} : t <= MaxTime}

\* the lowest number that is not in use
Lowest(used) == CHOOSE n \in 1..(Cardinality(used) + 1) : n \notin used /\ \A m \in 1..(n - 1) : m \in used

\* the files that still have a name or an open descriptor
Live(f, d, o) ==
  LET keep == {d[n] : n \in DOMAIN d} \cup {o[x] : x \in DOMAIN o}
  IN  [i \in (DOMAIN f) \cap keep |-> f[i]]

\* the index objects something still refers to
Reachable(h, list, pending) ==
  LET keep == {list[i] : i \in 1..Len(list)} \cup {s.index : s \in pending}
  IN  [o \in (DOMAIN h) \cap keep |-> h[o]]

\* fs.openSync(segment, 'a+') / open(segment, 'a+') at time t: the file is
\* created when no file has that name.  Gives the three maps and the fd.
OpenAppend(f, d, o, segment, t) ==
  LET ino == IF segment \in DOMAIN d THEN d[segment] ELSE Lowest(DOMAIN f)
      fd == Lowest(DOMAIN o)
  IN  [files |-> IF segment \in DOMAIN d THEN f
                 ELSE (ino :> [bytes |-> <<>>, mtime |-> t]) @@ f,
       dir |-> (segment :> ino) @@ d,
       fds |-> (fd :> ino) @@ o,
       fd |-> fd]

\* append(fd, content) at time t
AppendBytes(f, ino, content, t) ==
  [f EXCEPT ![ino] = [bytes |-> @.bytes \o content, mtime |-> t]]

\* the lookup loop of get: the first index, from 0, that has the key
Hits(k) == {i \in 1..Len(indexes) : MapHas(heap[indexes[i]].data, k)}
FirstFromOldest(S) == CHOOSE i \in S : \A j \in S : i >= j
First(S) == CHOOSE i \in S : \A j \in S : i <= j

\* what a get(k) that runs with nothing in between returns in this state
GetNow(k) ==
  IF Hits(k) = {} THEN NotFound
  ELSE LET index == heap[indexes[First(Hits(k))]]
       IN  IF index.fd \notin DOMAIN fds THEN Failed
           ELSE unpack(files[fds[index.fd]].bytes, MapGet(index.data, k))


\* ---------------------------------------------------------------- recovery
\* data.readIntBE(position, HEADER_LENGTH)
readIntBE(h) ==
  (IF h[1] >= 128 THEN h[1] - 256 ELSE h[1]) * 16777216 + h[2] * 65536 + h[3] * 256 + h[4]

\* the while loop of _loadExistingData over the bytes of one file, from
\* position with the Map data; readIntBE throws when fewer than four bytes
\* are left
RECURSIVE Scan(_, _, _)
Scan(bytes, position, data) ==
  IF ~(position < Len(bytes)) THEN [data |-> data, threw |-> FALSE]
  ELSE IF position + HEADER_LENGTH > Len(bytes) THEN [data |-> data, threw |-> TRUE]
  ELSE LET length == readIntBE(ReadBytes(bytes, position, HEADER_LENGTH))
           key == StripNul(Utf8Decode(
                    ReadBytes(bytes, position + HEADER_LENGTH, KEY_LENGTH)))
       IN  Scan(bytes, position + length + HEADER_LENGTH, MapSet(data, key, position))

\* readdirSync, filter on the extension, sort by mtime: the files of one
\* extension in an order of ascending mtime; files of equal mtime come in
\* the order readdirSync gave them, which is any
Sorted(f, d, ext) ==
  LET S == {n \in DOMAIN d : n.ext = ext}
  IN  {s \in [1..Cardinality(S) -> S] :
         /\ \A i, j \in 1..Cardinality(S) : i < j => s[i] # s[j]
         /\ \A i, j \in 1..Cardinality(S) : i < j => f[d[s[i]]].mtime <= f[d[s[j]]].mtime}

\* the for loop over segments: each file is read, opened, scanned and its
\* index unshifted
RECURSIVE LoadSegments(_, _)
LoadSegments(segments, st) ==
  IF segments = <<>> THEN st
  ELSE LET segment == Head(segments)
           scanned == Scan(st.files[st.dir[segment]].bytes, 0, <<>>)
           opened == OpenAppend(st.files, st.dir, st.fds, segment, 0)
           obj == Lowest(DOMAIN st.heap)
           index == [segment |-> segment, fd |-> opened.fd, data |-> scanned.data,
                     lastPosition |-> Len(st.files[st.dir[segment]].bytes)]
       IN  LoadSegments(Tail(segments),
             [files |-> st.files, dir |-> st.dir, fds |-> opened.fds,
              heap |-> (obj :> index) @@ st.heap,
              indexes |-> <<obj>> \o st.indexes,
              threw |-> st.threw \/ scanned.threw])

\* for (const extension of ['pkvc', 'pkv']) segments = segments.concat(...),
\* then segments.push(segment) of the file that was created
segmentsNormalFirst(pkvc, pkv, created) == pkv \o created \o pkvc
segmentsInOrder(pkvc, pkv, created) == pkvc \o pkv \o created

\* _loadExistingData on the directory d of files f, the compacted files in
\* the order pkvc and the normal ones in the order pkv, the clock at t
loadExistingData(f, d, pkvc, pkv, t) ==
  LET segment == Name(t, "pkv")
      ino == Lowest(DOMAIN f)
      fresh == pkv = <<>>
      f1 == IF fresh THEN (ino :> [bytes |-> <<>>, mtime |-> t]) @@ f ELSE f
      d1 == IF fresh THEN (segment :> ino) @@ d ELSE d
      segments == segmentsInOrder(pkvc, pkv, IF fresh THEN <<segment>> ELSE <<>>)
  IN  LoadSegments(segments,
        [files |-> f1, dir |-> d1, fds |-> <<>>, heap |-> <<>>,
         indexes |-> <<>>, threw |-> FALSE])

Zero == [sets |-> 0, gets |-> 0, cycles |-> 0, restarts |-> 0]

\* new PicoKV(options) where ./db/ does not exist
Init ==
  /\ now = 0
  /\ LET st == loadExistingData(<<>>, <<>>, <<>>, <<>>, 0)
     IN  /\ files = st.files
         /\ dir = st.dir
         /\ fds = st.fds
         /\ heap = st.heap
         /\ indexes = st.indexes
  /\ sets = {}
  /\ gets = {}
  /\ cycles = {}
  /\ closing = {}
  /\ count = Zero
  /\ last = None
  /\ written = <<>>

\* the process is stopped and new PicoKV(options) runs on the same ./db/:
\* every descriptor is closed, every suspended call is gone
Restart ==
  /\ LET f == Live(files, dir, <<>>)
     IN  \E pkvc \in Sorted(f, dir, "pkvc"), pkv \in Sorted(f, dir, "pkv"), t \in Times :
           /\ pkv # <<>> => t = now
           /\ \E st \in {loadExistingData(f, dir, pkvc, pkv, t)} :
               /\ ~st.threw
               /\ now' = t
               /\ files' = st.files
               /\ dir' = st.dir
               /\ fds' = st.fds
               /\ heap' = st.heap
               /\ indexes' = st.indexes
  /\ sets' = {}
  /\ gets' = {}
  /\ cycles' = {}
  /\ closing' = {}
  /\ count' = [count EXCEPT !.restarts = @ + 1]
  /\ last' = [op |-> "restart"]
  /\ written' = written


\* --------------------------------------------------------------------- set
\* if (index.lastPosition > this._segmentsSize)
sizeLimitReachedAtLimit(index) == index.lastPosition >= segmentsSize
sizeLimitReached(index) == index.lastPosition > segmentsSize

\* set(key, value) up to its await: the rotation, pack, and the call of
\* append on the descriptor of the index it holds
SetStart(key, value) ==
  /\ LET call == [id |-> count.sets + 1, key |-> key, value |-> value, pc |-> "append"]
     IN  IF sizeLimitReached(heap[indexes[1]])
         THEN \E t \in Times :
                LET segment == Name(t, "pkv")
                    opened == OpenAppend(files, dir, fds, segment, t)
                    obj == Lowest(DOMAIN heap)
                    index == [segment |-> segment, fd |-> opened.fd, data |-> <<>>,
                              lastPosition |-> 0]
                IN  /\ now' = t
                    /\ files' = opened.files
                    /\ dir' = opened.dir
                    /\ fds' = opened.fds
                    /\ heap' = (obj :> index) @@ heap
                    /\ indexes' = <<obj>> \o indexes
                    /\ sets' = sets \cup {call @@ [index |-> obj, fd |-> opened.fd]}
                    /\ last' = [op |-> "set", key |-> key, rotated |-> TRUE]
         ELSE /\ sets' = sets \cup {call @@ [index |-> indexes[1], fd |-> heap[indexes[1]].fd]}
              /\ last' = [op |-> "set", key |-> key, rotated |-> FALSE]
              /\ UNCHANGED <<now, files, dir, fds, heap, indexes>>
  /\ count' = [count EXCEPT !.sets = @ + 1]
  /\ UNCHANGED <<gets, cycles, closing, written>>

\* a set that goes on to its index update when its append has failed
SetAppendFailureIgnored(call) ==
  /\ call.pc = "append"
  /\ IF call.fd \in DOMAIN fds
     THEN \E t \in Times :
            /\ now' = t
            /\ files' = AppendBytes(files, fds[call.fd], pack(call.key, call.value), t)
     ELSE UNCHANGED <<now, files>>
  /\ sets' = (sets \ {call}) \cup {[call EXCEPT !.pc = "appended"]}
  /\ last' = None
  /\ UNCHANGED <<dir, fds, heap, indexes, gets, cycles, closing, count, written>>

\* the append of a suspended set is performed; on a descriptor that is
\* closed it fails, and the set with it
SetAppend(call) ==
  /\ call.pc = "append"
  /\ IF call.fd \in DOMAIN fds
     THEN \E t \in Times :
            /\ now' = t
            /\ files' = AppendBytes(files, fds[call.fd], pack(call.key, call.value), t)
            /\ sets' = (sets \ {call}) \cup {[call EXCEPT !.pc = "appended"]}
            /\ last' = None
            /\ heap' = heap
     ELSE /\ sets' = sets \ {call}
          /\ heap' = Reachable(heap, indexes, (sets \ {call}) \cup gets)
          /\ last' = [op |-> "setfailed", key |-> call.key, value |-> call.value]
          /\ UNCHANGED <<now, files>>
  /\ UNCHANGED <<dir, fds, indexes, gets, cycles, closing, count, written>>

\* set after its await: the index it holds gets the key, lastPosition moves
\* on, 'setkey' is emitted
SetFinish(call) ==
  /\ call.pc = "appended"
  /\ LET index == heap[call.index]
         content == pack(call.key, call.value)
         updated == [index EXCEPT !.data = MapSet(@, call.key, index.lastPosition),
                                  !.lastPosition = @ + Len(content)]
     IN  heap' = Reachable([heap EXCEPT ![call.index] = updated], indexes, (sets \ {call}) \cup gets)
  /\ sets' = sets \ {call}
  /\ last' = [op |-> "setkey", key |-> call.key, value |-> call.value, index |-> call.index]
  /\ written' = (call.key :> call.value) @@ written
  /\ UNCHANGED <<now, files, dir, fds, indexes, gets, cycles, closing, count>>

\* --------------------------------------------------------------------- get
\* get(key) up to its first await: the lookup loop; null when no index has
\* the key, else unpack is called and its first read is on its way
GetStart(key) ==
  /\ IF Hits(key) = {}
     THEN /\ last' = [op |-> "get", key |-> key, val |-> NotFound, reads |-> 0]
          /\ gets' = gets
     ELSE LET index == heap[indexes[First(Hits(key))]]
          IN  /\ gets' = gets \cup {[id |-> count.gets + 1, key |-> key, fd |-> index.fd,
                                     position |-> MapGet(index.data, key),
                                     pc |-> "header", length |-> 0,
                                     index |-> indexes[First(Hits(key))],
                                     want |-> GetNow(key)]}
              /\ last' = None
  /\ count' = [count EXCEPT !.gets = @ + 1]
  /\ UNCHANGED <<now, files, dir, fds, heap, indexes, sets, cycles, closing, written>>

\* the header that read(fd, headerBuffer, 0, HEADER_LENGTH, position) and
\* readUInt32BE give: -1 stands for what is in a buffer that was not filled
HeaderAt(fd, position) ==
  LET headerBuffer == ReadBytes(files[fds[fd]].bytes, position, HEADER_LENGTH)
  IN  IF Len(headerBuffer) < HEADER_LENGTH THEN -1 ELSE readUInt32BE(headerBuffer)

\* the value that read(fd, contentBuffer, 0, length, position + HEADER_LENGTH),
\* slice and toString give
ContentAt(fd, position, length) ==
  LET contentBuffer == ReadBytes(files[fds[fd]].bytes, position + HEADER_LENGTH, length)
  IN  IF length < 0 \/ Len(contentBuffer) < length THEN Garbage
      ELSE Utf8Decode(SubSeq(contentBuffer, KEY_LENGTH + 1, length))

\* the first read of unpack is performed, the second is called
\* a get that forgets the key in the index it read from when its read fails
GetHeaderForgetting(call) ==
  /\ call.pc = "header"
  /\ IF call.fd \in DOMAIN fds
     THEN /\ gets' = (gets \ {call}) \cup
                       {[call EXCEPT !.pc = "content", !.length = HeaderAt(call.fd, call.position)]}
          /\ last' = None
          /\ heap' = heap
     ELSE /\ gets' = gets \ {call}
          /\ last' = [op |-> "get", key |-> call.key, val |-> Failed, reads |-> 0,
                      want |-> call.want, index |-> call.index]
          /\ heap' = [o \in DOMAIN heap |->
                        IF o = call.index THEN [heap[o] EXCEPT !.data = <<>>] ELSE heap[o]]
  /\ UNCHANGED <<now, files, dir, fds, indexes, sets, cycles, closing, count, written>>

GetHeader(call) ==
  /\ call.pc = "header"
  /\ IF call.fd \in DOMAIN fds
     THEN /\ gets' = (gets \ {call}) \cup
                       {[call EXCEPT !.pc = "content", !.length = HeaderAt(call.fd, call.position)]}
          /\ last' = None
     ELSE /\ gets' = gets \ {call}
          /\ last' = [op |-> "get", key |-> call.key, val |-> Failed, reads |-> 0,
                      want |-> call.want, index |-> call.index]
  /\ UNCHANGED <<now, files, dir, fds, heap, indexes, sets, cycles, closing, count, written>>

\* the second read of unpack is performed, get returns the value
GetContent(call) ==
  /\ call.pc = "content"
  /\ gets' = gets \ {call}
  /\ last' = [op |-> "get", key |-> call.key,
              val |-> IF call.fd \in DOMAIN fds
                      THEN ContentAt(call.fd, call.position, call.length) ELSE Failed,
              reads |-> IF call.fd \in DOMAIN fds THEN 2 ELSE 1,
              want |-> call.want, index |-> call.index]
  /\ UNCHANGED <<now, files, dir, fds, heap, indexes, sets, cycles, closing, count, written>>


\* -------------------------------------------------------------- compaction
\* for (let [key, position] of oldIndex) distinctOldKeys.set(key, {fd, position, segment})
RECURSIVE AddIndex(_, _, _)
AddIndex(distinct, index, n) ==
  IF n > Len(index.data) THEN distinct
  ELSE AddIndex(MapSet(distinct, index.data[n][1],
                       [fd |-> index.fd, position |-> index.data[n][2],
                        segment |-> index.segment]),
                index, n + 1)

\* for (let i = this._indexes.length - 1; i > 0; i--): the indexes from the
\* last down to the second (i, counted from 1, goes down to 2)
RECURSIVE distinctOldKeys(_, _)
distinctOldKeys(distinct, i) ==
  IF i < 2 THEN distinct
  ELSE distinctOldKeys(AddIndex(distinct, heap[indexes[i]], 1), i - 1)

\* if (distinctOldKeys.size === 0) return
sizeIsZeroNever(distinct) == FALSE
sizeIsZero(distinct) == Len(distinct) = 0

\* the timer fires: the callback up to its first await (open), or to its
\* return when distinctOldKeys is empty
CompactStart ==
  /\ LET distinct == distinctOldKeys(<<>>, Len(indexes))
     IN  IF sizeIsZero(distinct)
         THEN /\ cycles' = cycles
              /\ now' = now
              /\ last' = [op |-> "skipped"]
         ELSE \E t \in Times :
                /\ now' = t
                /\ cycles' = cycles \cup
                     {[id |-> count.cycles + 1, pc |-> "open", keys |-> distinct,
                       segment |-> Name(t, "pkvc"), fd |-> 0, data |-> <<>>,
                       lastPosition |-> 0, i |-> 1, length |-> 0, value |-> <<>>,
                       inputs |-> {indexes[i] : i \in 2..Len(indexes)}]}
                /\ last' = None
  /\ count' = [count EXCEPT !.cycles = @ + 1]
  /\ UNCHANGED <<files, dir, fds, heap, indexes, sets, gets, closing, written>>

\* open(segment, 'a+') is performed; the loop over distinctOldKeys starts
\* and calls unpack for the first key
CompactOpen(c) ==
  /\ c.pc = "open"
  /\ \E t \in Times :
       LET opened == OpenAppend(files, dir, fds, c.segment, t)
       IN  /\ now' = t
           /\ files' = opened.files
           /\ dir' = opened.dir
           /\ fds' = opened.fds
           /\ cycles' = (cycles \ {c}) \cup {[c EXCEPT !.pc = "header", !.fd = opened.fd]}
  /\ last' = None
  /\ UNCHANGED <<heap, indexes, sets, gets, closing, count, written>>

\* the first read of unpack(data.fd, data.position) is performed; when it
\* fails the callback ends there
CompactHeader(c) ==
  /\ c.pc = "header"
  /\ LET data == c.keys[c.i][2]
     IN  IF data.fd \in DOMAIN fds
         THEN /\ cycles' = (cycles \ {c}) \cup
                   {[c EXCEPT !.pc = "content", !.length = HeaderAt(data.fd, data.position)]}
              /\ last' = None
         ELSE /\ cycles' = cycles \ {c}
              /\ last' = [op |-> "aborted", id |-> c.id]
  /\ UNCHANGED <<now, files, dir, fds, heap, indexes, sets, gets, closing, count, written>>

\* the second read of unpack is performed; pack, and append is called
CompactContent(c) ==
  /\ c.pc = "content"
  /\ LET data == c.keys[c.i][2]
     IN  IF data.fd \in DOMAIN fds
         THEN /\ cycles' = (cycles \ {c}) \cup
                   {[c EXCEPT !.pc = "append",
                              !.value = ContentAt(data.fd, data.position, c.length)]}
              /\ last' = None
         ELSE /\ cycles' = cycles \ {c}
              /\ last' = [op |-> "aborted", id |-> c.id]
  /\ UNCHANGED <<now, files, dir, fds, heap, indexes, sets, gets, closing, count, written>>

\* this._indexes.splice(1, this._indexes.length - 1, compactedIndex)
spliceNothingRemoved(list, compactedIndex) ==
  <<list[1], compactedIndex>> \o SubSeq(list, 2, Len(list))
splice(list, compactedIndex) == <<list[1], compactedIndex>>
obsoleteIndexes(list) == SubSeq(list, 2, Len(list))

\* append(fd, content) is performed and compactedIndex updated; after the
\* last key the splice, the calls of close for the obsolete indexes and the
\* emit of 'compacted'; else unpack is called for the next key
CompactAppend(c) ==
  /\ c.pc = "append"
  /\ LET key == c.keys[c.i][1]
         content == pack(key, c.value)
         data == MapSet(c.data, key, c.lastPosition)
         lastPosition == c.lastPosition + Len(content)
     IN  /\ \E t \in Times :
              /\ now' = t
              /\ files' = AppendBytes(files, fds[c.fd], content, t)
         /\ IF c.i < Len(c.keys)
            THEN /\ cycles' = (cycles \ {c}) \cup
                      {[c EXCEPT !.pc = "header", !.i = @ + 1, !.data = data,
                                 !.lastPosition = lastPosition]}
                 /\ last' = None
                 /\ UNCHANGED <<heap, indexes, closing>>
            ELSE LET obj == Lowest(DOMAIN heap)
                     compactedIndex == [fd |-> c.fd, segment |-> c.segment, data |-> data,
                                        lastPosition |-> lastPosition]
                     obsolete == obsoleteIndexes(indexes)
                 IN  /\ indexes' = splice(indexes, obj)
                     /\ heap' = Reachable((obj :> compactedIndex) @@ heap, indexes', sets \cup gets)
                     /\ closing' = closing \cup
                          {[fd |-> heap[obsolete[n]].fd, segment |-> heap[obsolete[n]].segment,
                            pc |-> "close"] : n \in 1..Len(obsolete)}
                     /\ cycles' = cycles \ {c}
                     /\ last' = [op |-> "compacted", id |-> c.id, segment |-> c.segment,
                                 index |-> obj, inputs |-> c.inputs,
                                 obsolete |-> {obsolete[n] : n \in 1..Len(obsolete)}]
  /\ UNCHANGED <<dir, fds, sets, gets, count, written>>

\* close(idx.fd) is performed and unlink called; when close fails the
\* callback ends there
Close(j) ==
  /\ j.pc = "close"
  /\ IF j.fd \in DOMAIN fds
     THEN /\ fds' = [x \in (DOMAIN fds) \ {j.fd} |-> fds[x]]
          /\ files' = Live(files, dir, fds')
          /\ closing' = (closing \ {j}) \cup {[j EXCEPT !.pc = "unlink"]}
     ELSE /\ closing' = closing \ {j}
          /\ UNCHANGED <<fds, files>>
  /\ last' = None
  /\ UNCHANGED <<now, dir, heap, indexes, sets, gets, cycles, count, written>>

\* unlink(idx.segment) is performed
Unlink(j) ==
  /\ j.pc = "unlink"
  /\ dir' = [n \in (DOMAIN dir) \ {j.segment} |-> dir[n]]
  /\ files' = Live(files, dir', fds)
  /\ closing' = closing \ {j}
  /\ last' = None
  /\ UNCHANGED <<now, fds, heap, indexes, sets, gets, cycles, count, written>>

\* what is suspended at an await
Idle == sets = {} /\ gets = {} /\ cycles = {} /\ closing = {}

\* ------------------------------------------------------- the whole program
\* calls of set and get arrive, the timer fires and file operations are
\* performed in any order
Next ==
  \/ count.sets < MaxSets /\ \E key \in {KeyA, KeyB}, value \in {<<>>, <<49>>} : SetStart(key, value)
  \/ \E call \in sets : SetAppend(call)
  \/ \E call \in sets : SetFinish(call)
  \/ count.gets < MaxGets /\ \E key \in {KeyA, KeyB} : GetStart(key)
  \/ \E call \in gets : GetHeader(call)
  \/ \E call \in gets : GetContent(call)
  \/ count.cycles < MaxCycles /\ CompactStart
  \/ \E c \in cycles : CompactOpen(c)
  \/ \E c \in cycles : CompactHeader(c)
  \/ \E c \in cycles : CompactContent(c)
  \/ \E c \in cycles : CompactAppend(c)
  \/ \E j \in closing : Close(j)
  \/ \E j \in closing : Unlink(j)

Spec == Init /\ [][Next]_vars

\* ------------------------------------------------ one call after the other
\* the caller awaits each set and each get before its next call, the timer
\* fires between two calls, and the process is stopped and started again
\* only when nothing is suspended
SeqNext ==
  \/ Idle /\ count.sets < MaxSets /\ \E key \in {KeyA, Key21}, value \in {<<>>, <<233>>} : SetStart(key, value)
  \/ \E call \in sets : SetAppend(call)
  \/ \E call \in sets : SetFinish(call)
  \/ Idle /\ count.gets < MaxGets /\ \E key \in {KeyA, Key21, Key20} : GetStart(key)
  \/ \E call \in gets : GetHeader(call)
  \/ \E call \in gets : GetContent(call)
  \/ sets = {} /\ gets = {} /\ count.cycles < MaxCycles /\ CompactStart
  \/ gets = {} /\ \E c \in cycles : CompactOpen(c)
  \/ gets = {} /\ \E c \in cycles : CompactHeader(c)
  \/ gets = {} /\ \E c \in cycles : CompactContent(c)
  \/ gets = {} /\ \E c \in cycles : CompactAppend(c)
  \/ gets = {} /\ \E j \in closing : Close(j)
  \/ gets = {} /\ \E j \in closing : Unlink(j)
  \/ Idle /\ count.restarts < MaxRestarts /\ Restart

SpecSeq == Init /\ [][SeqNext]_vars

\* ------------------------------------------------- the process is stopped
\* sets and the compaction job run in any order and the process is stopped
\* at any moment and started again
CrashNext ==
  \/ count.sets < MaxSets /\ \E key \in {KeyA, KeyB}, value \in {<<>>, <<49>>} : SetStart(key, value)
  \/ \E call \in sets : SetAppend(call)
  \/ \E call \in sets : SetFinish(call)
  \/ count.cycles < MaxCycles /\ CompactStart
  \/ \E c \in cycles : CompactOpen(c)
  \/ \E c \in cycles : CompactHeader(c)
  \/ \E c \in cycles : CompactContent(c)
  \/ \E c \in cycles : CompactAppend(c)
  \/ \E j \in closing : Close(j)
  \/ \E j \in closing : Unlink(j)
  \/ count.restarts < MaxRestarts /\ Restart

SpecCrash == Init /\ [][CrashNext]_vars


\* ------------------------------------------------------------------ claims
\* C1 (last write wins): where each set is awaited before the next call and
\* no compaction cycle runs during a set, a get of a key of at most
\* KEY_LENGTH bytes returns the value of the last set of that key, whatever
\* was written to other keys and however often the segment was rotated
C1_LastWriteWins ==
  (/\ last.op = "get"
   /\ count.restarts = 0
   /\ Len(last.key) <= KEY_LENGTH
   /\ last.key \in DOMAIN written) => last.val = written[last.key]


\* a step of a compaction cycle, of the timer callback or of the callbacks
\* that close and unlink the obsolete segments: the steps that change what
\* of a cycle is suspended, and the callback that returns at once
CycleStep ==
  /\ count.restarts' = count.restarts
  /\ cycles' # cycles \/ closing' # closing \/ last'.op = "skipped"

\* the latest set of the key has completed
Settled(k) == k \in DOMAIN written /\ \A call \in sets : call.key # k

\* C2 (compaction safety): no step of a compaction cycle changes what get
\* returns for a key whose latest set has completed, also when sets that
\* rotate the active segment run between the steps of the cycle
C2_CompactionSafety ==
  [][(CycleStep /\ <<indexes, heap, fds, files>>' # <<indexes, heap, fds, files>>)
       => \A k \in DOMAIN written : Settled(k) => GetNow(k)' = GetNow(k)]_vars

\* C3 (atomic swap seen by readers): a get that found its key in an index
\* returns the value that was there when it looked the key up, also when the
\* splice and the close of the replaced segments come before its reads
C3_AtomicSwap ==
  (last.op = "get" /\ last.val # NotFound) => last.val = last.want

\* C10 (only inputs are deleted): the indexes a cycle's splice removes, whose
\* files it closes and unlinks, are the indexes it iterated when it built
\* distinctOldKeys
C10_RemovedAreInputs ==
  last.op = "compacted" => last.obsolete = last.inputs


\* C4 (recovery fidelity): when the process is stopped with nothing
\* suspended and started again on the same directory, get returns for every
\* key that was set what it returned before the stop
C4_RecoveryFidelity ==
  [][(Idle /\ last'.op = "restart") =>
       \A k \in DOMAIN written : GetNow(k)' = GetNow(k)]_vars

\* C8 (KeyTooLong): a set with a key of more than KEY_LENGTH bytes fails
\* before it appends anything, so no set with such a key ever has its
\* record in a file
C8_KeyTooLong ==
  \A call \in sets : call.pc = "appended" => Len(call.key) <= KEY_LENGTH

\* C9 (notification ordering): when 'setkey' is emitted for (k, v) a get(k)
\* started in the handler returns v, and when 'compacted' is emitted the
\* compacted index is in the list, behind the active one
C9_NotifyAfterVisible ==
  /\ last.op = "setkey" => GetNow(last.key) = last.value
  /\ last.op = "compacted" => Len(indexes) = 2 /\ indexes[2] = last.index


\* the extension of the file of the i-th index of the list
Ext(i) == heap[indexes[i]].segment.ext
\* the i-th index of the list has the key
Has(i, k) == \E n \in 1..Len(heap[indexes[i]].data) : heap[indexes[i]].data[n][1] = k
\* the value of the record at the offset that the i-th index has for the key
ValueIn(i, k) ==
  unpack(files[fds[heap[indexes[i]].fd]].bytes,
         heap[indexes[i]].data[CHOOSE n \in 1..Len(heap[indexes[i]].data) :
                                 heap[indexes[i]].data[n][1] = k][2])

C7_NormalBeforeCompacted ==
  last.op = "restart" =>
    /\ \A i, j \in 1..Len(indexes) : (i < j /\ Ext(j) = "pkv") => Ext(i) = "pkv"
    /\ Ext(1) = "pkv"
    /\ \A n \in DOMAIN dir :
         n.ext = "pkv" => files[dir[n]].mtime <= files[fds[heap[indexes[1]].fd]].mtime
    /\ \A k \in Keys :
         (\E i \in 1..Len(indexes) : Ext(i) = "pkv" /\ Has(i, k)) =>
           \E i \in 1..Len(indexes) :
             /\ Ext(i) = "pkv" /\ Has(i, k) /\ GetNow(k) = ValueIn(i, k)
             /\ \A j \in 1..(i - 1) : ~Has(j, k)

\* recovery has found a compacted and a normal file that hold different
\* values of one key
C7_Witness ==
  /\ last.op = "restart"
  /\ \E k \in Keys, i, j \in 1..Len(indexes) :
       /\ Ext(i) = "pkv" /\ Ext(j) = "pkvc"
       /\ Has(i, k) /\ Has(j, k)
       /\ ValueIn(i, k) # ValueIn(j, k)

\* the bytes of the file that the descriptor of the i-th index denotes
FileOf(i) == files[fds[heap[indexes[i]].fd]].bytes

\* the file holds at the position a whole record of the key
RecordAt(bytes, position, key) ==
  /\ position + HEADER_LENGTH + KEY_LENGTH <= Len(bytes)
  /\ LET length == readUInt32BE(ReadBytes(bytes, position, HEADER_LENGTH))
     IN  /\ length >= KEY_LENGTH
         /\ position + HEADER_LENGTH + length <= Len(bytes)
  /\ StripNul(Utf8Decode(ReadBytes(bytes, position + HEADER_LENGTH, KEY_LENGTH))) = key

\* C11 (index validity): every offset that an index of the list has for a
\* key is the offset of a whole record of that key in the file of the index
C11_IndexValidity ==
  \A i \in 1..Len(indexes) :
    \A n \in 1..Len(heap[indexes[i]].data) :
      /\ heap[indexes[i]].fd \in DOMAIN fds
      /\ RecordAt(FileOf(i), heap[indexes[i]].data[n][2], heap[indexes[i]].data[n][1])

\* C12 (failed append): a set whose append fails is rejected to its caller
\* and is over: it changes no index, no lastPosition, no file and the list
\* not, and emits no 'setkey'
C12_FailedAppend ==
  [][\A call \in sets :
       (call.pc = "append" /\ call.fd \notin DOMAIN fds /\ call \notin sets') =>
         /\ last'.op = "setfailed"
         /\ last'.key = call.key
         /\ \A c \in sets' : c.id # call.id
         /\ indexes' = indexes
         /\ \A o \in DOMAIN heap' : heap'[o] = heap[o]
         /\ \A i \in 1..Len(indexes) : indexes[i] \in DOMAIN heap'
         /\ files' = files
         /\ written' = written]_vars

\* the append of a set has failed on a closed descriptor
C12_Witness ==
  /\ last.op = "setfailed"
  /\ \E i \in 1..Len(indexes) : heap[indexes[i]].data # <<>>

\* ------------------------------------------------- recovery of one file
MaxRecords == 2

\* the files that up to n appends of whole records make
RECURSIVE Logs(_)
Logs(n) ==
  IF n = 0 THEN {<<>>}
  ELSE Logs(n - 1) \cup
       {l \o pack(key, value) : l \in Logs(n - 1), key \in {KeyA, KeyB}, value \in Values}

\* the same files cut at any byte, as a stop in the middle of an append
\* leaves them
OnDisk == UNION {{SubSeq(l, 1, m) : m \in 0..Len(l)} : l \in Logs(MaxRecords)}

\* ./db/ holds one .pkv file and no PicoKV has been constructed on it
InitOnDisk ==
  /\ now = 0
  /\ \E bytes \in OnDisk : files = <<[bytes |-> bytes, mtime |-> 0]>>
  /\ dir = (Name(0, "pkv") :> 1)
  /\ fds = <<>>
  /\ heap = <<>>
  /\ indexes = <<>>
  /\ sets = {}
  /\ gets = {}
  /\ cycles = {}
  /\ closing = {}
  /\ count = Zero
  /\ last = None
  /\ written = <<>>

\* new PicoKV(options) on that directory: _loadExistingData runs to its end
\* or throws out of the constructor
Construct ==
  /\ last = None
  /\ \E pkvc \in Sorted(files, dir, "pkvc"), pkv \in Sorted(files, dir, "pkv") :
       \E st \in {loadExistingData(files, dir, pkvc, pkv, now)} :
         IF st.threw
         THEN /\ last' = [op |-> "constructfailed"]
              /\ UNCHANGED <<files, dir, fds, heap, indexes>>
         ELSE /\ last' = [op |-> "constructed"]
              /\ files' = st.files
              /\ dir' = st.dir
              /\ fds' = st.fds
              /\ heap' = st.heap
              /\ indexes' = st.indexes
  /\ UNCHANGED <<now, sets, gets, cycles, closing, count, written>>

RecoverNext == Construct

SpecRecover == InitOnDisk /\ [][RecoverNext]_vars

\* the last header of the file declares more bytes than the file has after it
RECURSIVE EndsTruncated(_, _)
EndsTruncated(bytes, position) ==
  IF position + HEADER_LENGTH > Len(bytes) THEN FALSE
  ELSE LET length == readUInt32BE(ReadBytes(bytes, position, HEADER_LENGTH))
       IN  IF position + HEADER_LENGTH + length > Len(bytes) THEN TRUE
           ELSE EndsTruncated(bytes, position + HEADER_LENGTH + length)

\* C13 (truncated file): the constructor does not complete on a file whose
\* last record is shorter than its header declares
C13_TruncatedIsFatal ==
  \A n \in DOMAIN dir :
    EndsTruncated(files[dir[n]].bytes, 0) => last.op # "constructed"

\* C14 (compaction never touches the active segment): the mapping a cycle
\* builds has no descriptor of the index at the front; no read of a cycle is
\* on the file of the index at the front; no step of a cycle changes which
\* index is at the front, its Map or its lastPosition; no close is on its
\* descriptor and no unlink on its file
C14_ActiveUntouched ==
  [][/\ \A c \in cycles' :
          (c \notin cycles /\ c.pc = "open") =>
            \A n \in 1..Len(c.keys) : c.keys[n][2].fd # heap[indexes[1]].fd
     /\ \A c \in cycles :
          (/\ c.pc \in {"header", "content"}
           /\ c \notin cycles'
           /\ c.keys[c.i][2].fd \in DOMAIN fds)
          => fds[c.keys[c.i][2].fd] # fds[heap[indexes[1]].fd]
     /\ (cycles' # cycles \/ closing' # closing) =>
          /\ indexes'[1] = indexes[1]
          /\ heap'[indexes[1]] = heap[indexes[1]]
     /\ \A j \in closing :
          j \notin closing' =>
            /\ j.pc = "close" => j.fd # heap[indexes[1]].fd
            /\ j.pc = "unlink" => dir[heap[indexes[1]].segment] = dir'[heap[indexes[1]].segment]]_vars

\* C15 (no segment has two actors): the index that a suspended set holds is
\* in the list and is no input of a running compaction cycle
C15_OneActor ==
  \A call \in sets :
    /\ \E i \in 1..Len(indexes) : indexes[i] = call.index
    /\ \A c \in cycles : call.index \notin c.inputs

\* the records of a file from the position on, as far as whole records go
RECURSIVE RecordsOf(_, _)
RecordsOf(bytes, position) ==
  IF position + HEADER_LENGTH + KEY_LENGTH > Len(bytes) THEN <<>>
  ELSE LET length == readUInt32BE(ReadBytes(bytes, position, HEADER_LENGTH))
       IN  IF length < KEY_LENGTH \/ position + HEADER_LENGTH + length > Len(bytes)
           THEN <<>>
           ELSE <<[key |-> ReadBytes(bytes, position + HEADER_LENGTH, KEY_LENGTH),
                   value |-> Utf8Decode(ReadBytes(bytes, position + HEADER_LENGTH + KEY_LENGTH,
                                                  length - KEY_LENGTH)),
                   end |-> position + HEADER_LENGTH + length]>>
                \o RecordsOf(bytes, position + HEADER_LENGTH + length)

\* the keys of the indexes behind the front one
SealedKeys == UNION {{heap[indexes[i]].data[n][1] : n \in 1..Len(heap[indexes[i]].data)} :
                       i \in 2..Len(indexes)}

\* C16 (content of a compacted segment): the file of the compacted index
\* that a splice puts in the list is, from its first byte to its last, one
\* record for each key of the indexes that were behind the front one, with
\* the key in its key field and the value that the first of those indexes
\* that has the key gave for it
C16_CompactedContent ==
  [][(last'.op = "compacted" /\ last' # last) =>
       LET new == heap'[indexes'[2]]
           records == RecordsOf(files'[fds'[new.fd]].bytes, 0)
       IN  /\ Len(records) = Cardinality(SealedKeys)
           /\ Len(records) > 0 => records[Len(records)].end = Len(files'[fds'[new.fd]].bytes)
           /\ \A k \in SealedKeys :
                \E n \in 1..Len(records) :
                  /\ records[n].key = k \o [x \in 1..(KEY_LENGTH - Len(k)) |-> 0]
                  /\ \E i \in 2..Len(indexes) :
                       /\ Has(i, k)
                       /\ \A j \in 2..(i - 1) : ~Has(j, k)
                       /\ records[n].value = ValueIn(i, k)]_vars

\* ------------------------------------------------ cycles that fail
\* a cycle whose failed await lets it go on to its splice
CompactRejectSwallowed(c) ==
  /\ c.pc \in {"open", "header", "content", "append"}
  /\ LET obj == Lowest(DOMAIN heap)
         compactedIndex == [fd |-> c.fd, segment |-> c.segment, data |-> c.data,
                            lastPosition |-> c.lastPosition]
     IN  /\ indexes' = splice(indexes, obj)
         /\ heap' = Reachable((obj :> compactedIndex) @@ heap, indexes', sets \cup gets)
  /\ cycles' = cycles \ {c}
  /\ last' = [op |-> "aborted", id |-> c.id]
  /\ UNCHANGED <<now, files, dir, fds, sets, gets, closing, count, written>>

\* the open, read or append that a cycle awaits is rejected by the file
\* system: the await throws and the callback ends
CompactReject(c) ==
  /\ c.pc \in {"open", "header", "content", "append"}
  /\ cycles' = cycles \ {c}
  /\ last' = [op |-> "aborted", id |-> c.id]
  /\ UNCHANGED <<now, files, dir, fds, heap, indexes, sets, gets, closing, count, written>>

\* how many ticks of the timer beyond MaxCycles are followed
MoreCycles == 1

\* sets one at a time, and ticks of the timer whose cycles overlap and fail
FailNext ==
  \/ /\ count.sets < MaxSets
     /\ sets = {}
     /\ \E key \in {KeyA, KeyB} : SetStart(key, <<49>>)
  \/ \E call \in sets : SetAppend(call)
  \/ \E call \in sets : SetFinish(call)
  \/ count.cycles < MaxCycles + MoreCycles /\ CompactStart
  \/ \E c \in cycles : CompactOpen(c)
  \/ \E c \in cycles : CompactHeader(c)
  \/ \E c \in cycles : CompactContent(c)
  \/ \E c \in cycles : CompactAppend(c)
  \/ \E c \in cycles : CompactReject(c)
  \/ \E j \in closing : Close(j)
  \/ \E j \in closing : Unlink(j)

SpecFail == Init /\ [][FailNext]_vars

\* C17 (compaction failure): a cycle that ends at a failed open, read or
\* append leaves the list, every index, every descriptor and every file
\* name as they are, calls no close, and what it emits is not 'compacted';
\* before that it has changed no index and not the list; a tick of the
\* timer after it starts a cycle that has copied nothing yet and whose
\* mapping is built from the list as it then is
C17_CompactionFailure ==
  [][/\ \A c \in cycles :
          ((\A d \in cycles' : d.id # c.id) /\ files' = files) =>
            /\ indexes' = indexes
            /\ heap' = heap
            /\ fds' = fds
            /\ dir' = dir
            /\ closing' = closing
            /\ last'.op = "aborted"
     /\ \A c \in cycles :
          (\E d \in cycles' : d.id = c.id /\ d # c) =>
            /\ indexes' = indexes
            /\ heap' = heap
            /\ closing' = closing
     /\ \A d \in cycles' :
          (\A c \in cycles : c.id # d.id) =>
            /\ d.pc = "open"
            /\ d.i = 1
            /\ d.data = <<>>
            /\ d.lastPosition = 0
            /\ {d.keys[n][1] : n \in 1..Len(d.keys)} = SealedKeys
            /\ indexes' = indexes
            /\ heap' = heap]_vars

\* a cycle has failed after another cycle, started before it or after it,
\* made its splice
C17_Witness ==
  /\ last.op = "aborted"
  /\ Len(indexes) = 2
  /\ heap[indexes[2]].segment.ext = "pkvc"

\* ------------------------------------- sets and cycles that all overlap
\* calls of set of one key that are not awaited, and ticks of the timer
\* whose cycles overlap
ReuseNext ==
  \/ count.sets < MaxSets /\ SetStart(KeyA, <<49>>)
  \/ \E call \in sets : SetAppend(call)
  \/ \E call \in sets : SetFinish(call)
  \/ count.cycles < MaxCycles + MoreCycles /\ CompactStart
  \/ \E c \in cycles : CompactOpen(c)
  \/ \E c \in cycles : CompactHeader(c)
  \/ \E c \in cycles : CompactContent(c)
  \/ \E c \in cycles : CompactAppend(c)
  \/ \E j \in closing : Close(j)
  \/ \E j \in closing : Unlink(j)

SpecReuse == Init /\ [][ReuseNext]_vars

\* C18 (exactly one active segment): the list is never empty and the index
\* at its front is of a .pkv file; a set that starts calls append on the
\* descriptor of the index that is then at the front; no append of a set
\* goes to a .pkvc file
C18_OneActive ==
  /\ [](Len(indexes) >= 1 /\ Ext(1) = "pkv")
  /\ [][count.sets' # count.sets =>
          \A call \in sets' :
            call \notin sets =>
              /\ call.index = indexes'[1]
              /\ call.fd = heap'[indexes'[1]].fd]_vars
  /\ [][\A call \in sets :
          (call.pc = "append" /\ call \notin sets' /\ files' # files) =>
            \A n \in DOMAIN dir : dir[n] = fds[call.fd] => n.ext = "pkv"]_vars

\* C19 (segment identifiers): no two indexes of the list have one file name
C19_DistinctNames ==
  \A i, j \in 1..Len(indexes) :
    i # j => heap[indexes[i]].segment # heap[indexes[j]].segment

\* C20 (empty cycle): a tick of the timer that finds no key in the indexes
\* behind the front one starts no cycle, opens no file, changes no index,
\* no file and not the list, calls no close and emits no 'compacted'
C20_EmptyCycle ==
  [][(count.cycles' # count.cycles /\ SealedKeys = {}) =>
       /\ cycles' = cycles
       /\ files' = files
       /\ dir' = dir
       /\ fds' = fds
       /\ heap' = heap
       /\ indexes' = indexes
       /\ closing' = closing
       /\ last'.op # "compacted"]_vars

\* the timer has found indexes behind the front one, none with a key
C20_Witness ==
  /\ last.op = "skipped"
  /\ Len(indexes) >= 2

\* C21 (list shape after a swap): the step at which a cycle makes its splice
\* leaves a list of two, the index that was at the front and the index of
\* the cycle's .pkvc file; at any time an index of a .pkvc file is the last
\* of the list, so the list has one at most
C21_ListShape ==
  /\ [][\A c \in cycles :
          (/\ c.pc = "append"
           /\ c.i = Len(c.keys)
           /\ \A d \in cycles' : d.id # c.id
           /\ files' # files)
          => /\ Len(indexes') = 2
             /\ indexes'[1] = indexes[1]
             /\ heap'[indexes'[1]].segment.ext = "pkv"
             /\ heap'[indexes'[2]].segment = c.segment
             /\ heap'[indexes'[2]].fd = c.fd]_vars
  /\ [](\A i \in 1..Len(indexes) : Ext(i) = "pkvc" => i = Len(indexes))

\* a splice has replaced two indexes by the index of its .pkvc file
C21_Witness ==
  /\ last.op = "compacted"
  /\ Cardinality(last.obsolete) >= 2
  /\ Len(indexes) = 2

\* C22 (cycles do not overlap): at most one compaction cycle is suspended at
\* an await; no cycle is about to read from a descriptor that is closed
C22_NoOverlap ==
  /\ Cardinality(cycles) <= 1
  /\ \A c \in cycles :
       c.pc \in {"header", "content"} => c.keys[c.i][2].fd \in DOMAIN fds

\* C23 (a completed set is reachable): when a set completes, the index it
\* has put its key in is in the list and is the first of the list that has
\* the key
C23_CompletedSetReachable ==
  last.op = "setkey" =>
    \E i \in 1..Len(indexes) :
      /\ indexes[i] = last.index
      /\ Has(i, last.key)
      /\ \A j \in 1..(i - 1) : ~Has(j, last.key)

\* C24 (get changes nothing): no step of a get, from its lookup to its
\* return of a value or of null or to its failed read, changes the list, an
\* index, a lastPosition, a file, a file name or a descriptor, or what sets
\* and cycles are suspended at; none emits 'setkey' or 'compacted'
C24_GetChangesNothing ==
  [][(gets' # gets \/ count.gets' # count.gets) =>
       /\ indexes' = indexes
       /\ heap' = heap
       /\ files' = files
       /\ dir' = dir
       /\ fds' = fds
       /\ sets' = sets
       /\ cycles' = cycles
       /\ closing' = closing
       /\ last'.op \notin {"setkey", "compacted"}]_vars

\* a get has failed at a read from a descriptor that compaction closed,
\* while the index it had looked the key up in is still referred to
C24_Witness ==
  /\ last.op = "get"
  /\ last.val = Failed
  /\ last.index \in DOMAIN heap

====
